---- MODULE Spec2Model ----
\* The wallet validators (derivation path, safe integer, big number, address,
\* hex sequence), their message catalog and the shared assertion primitive.
\* A JavaScript string is a sequence of one-character strings; any other
\* JavaScript value is a tagged record (see the value constructors below).
EXTENDS Integers, Sequences, FiniteSets, TLC

VARIABLES assertMode, validator, input, validationTests, evaluated, outcome

vars == <<assertMode, validator, input, validationTests, evaluated, outcome>>

-----------------------------------------------------------------------------
\* Bounds of the enumerated inputs.

\* Largest number of pieces in the change/index part of a generated path.
MaxPieces == 3
\* Largest number of segments appended to / removed from a generated path.
MaxExtraSegments == 2
\* How far below 2^53-1 and above 2^53 the generated numbers reach.
MaxOffset == 2
\* How many characters a generated address is shortened or lengthened by.
MaxLenDelta == 2

-----------------------------------------------------------------------------
\* Characters and strings.

Digits == <<"0", "1", "2", "3", "4", "5", "6", "7", "8", "9">>
LowerChars == <<"a", "b", "c", "d", "e", "f", "g", "m", "x">>
UpperChars == <<"A", "B", "C", "D", "E", "F", "G", "M", "X">>

IndexIn(c, alphabet) ==
    IF \E i \in 1..Len(alphabet) : alphabet[i] = c
    THEN CHOOSE i \in 1..Len(alphabet) : alphabet[i] = c
    ELSE 0

IsDigit(c) == IndexIn(c, Digits) > 0
DigitVal(c) == IndexIn(c, Digits) - 1

\* String.prototype.toLowerCase / toUpperCase, character by character.
LowerChar(c) == IF IndexIn(c, UpperChars) > 0 THEN LowerChars[IndexIn(c, UpperChars)] ELSE c
UpperChar(c) == IF IndexIn(c, LowerChars) > 0 THEN UpperChars[IndexIn(c, LowerChars)] ELSE c
toLowerCase(s) == [i \in 1..Len(s) |-> LowerChar(s[i])]
toUpperCase(s) == [i \in 1..Len(s) |-> UpperChar(s[i])]

IsHexChar(c) == IsDigit(c) \/ (IndexIn(LowerChar(c), LowerChars) \in 1..6)
HexVal(c) == IF IsDigit(c) THEN DigitVal(c) ELSE 9 + IndexIn(LowerChar(c), LowerChars)

\* s, n times.
RECURSIVE Repeat(_, _)
Repeat(s, n) == IF n <= 0 THEN <<>> ELSE s \o Repeat(s, n - 1)

\* Whether d occurs in s at position p.
OccursAt(s, d, p) ==
    /\ p + Len(d) - 1 <= Len(s)
    /\ \A k \in 1..Len(d) : s[p + k - 1] = d[k]

\* String.prototype.split with a non-empty string separator: the pieces
\* between the successive, non-overlapping occurrences of d, left to right.
RECURSIVE SplitFrom(_, _, _, _)
SplitFrom(s, d, start, p) ==
    IF p > Len(s)
    THEN <<SubSeq(s, start, Len(s))>>
    ELSE IF OccursAt(s, d, p)
         THEN <<SubSeq(s, start, p - 1)>> \o SplitFrom(s, d, p + Len(d), p + Len(d))
         ELSE SplitFrom(s, d, start, p + 1)

split(s, d) == SplitFrom(s, d, 1, 1)

\* Array.prototype.join.
RECURSIVE join(_, _)
join(parts, d) ==
    IF Len(parts) = 0 THEN <<>>
    ELSE IF Len(parts) = 1 THEN parts[1]
    ELSE parts[1] \o d \o join(Tail(parts), d)

-----------------------------------------------------------------------------
\* parseInt(string, 10): leading blanks are skipped, one sign is accepted, then
\* the longest run of digits is read and whatever follows is ignored; without
\* a digit the result is NaN. parseInt(undefined, 10) is NaN.

NaN == [nan |-> TRUE, n |-> 0]
Finite(n) == [nan |-> FALSE, n |-> n]

RECURSIVE SkipBlanks(_)
SkipBlanks(s) == IF Len(s) > 0 /\ s[1] = " " THEN SkipBlanks(Tail(s)) ELSE s

RECURSIVE DigitRun(_)
DigitRun(s) == IF Len(s) > 0 /\ IsDigit(s[1]) THEN <<s[1]>> \o DigitRun(Tail(s)) ELSE <<>>

RECURSIVE DecimalValue(_)
DecimalValue(ds) ==
    IF Len(ds) = 0 THEN 0
    ELSE 10 * DecimalValue(SubSeq(ds, 1, Len(ds) - 1)) + DigitVal(ds[Len(ds)])

parseInt(s) ==
    LET t == SkipBlanks(s)
        neg == Len(t) > 0 /\ t[1] = "-"
        u == IF Len(t) > 0 /\ t[1] \in {"-", "+"} THEN Tail(t) ELSE t
        run == DigitRun(u)
    IN  IF Len(run) = 0 THEN NaN
        ELSE Finite(IF neg THEN 0 - DecimalValue(run) ELSE DecimalValue(run))

\* parseInt(array[i], 10), where array[i] is undefined past the end.
parseIntAt(array, i) == IF i <= Len(array) THEN parseInt(array[i]) ELSE NaN

-----------------------------------------------------------------------------
\* The derivation path constants, the patterns and the placeholder token.

PATH ==
    [HEADER_KEY |-> <<"m">>,
     PURPOSE |-> 44,
     COIN_MAINNET |-> 60,
     COIN_TESTNET |-> 1,
     DELIMITER |-> <<"/">>]

SPLITTER == <<"'">>

\* MATCH.DIGITS: one or more digits and nothing else.
MatchDIGITS(s) == Len(s) > 0 /\ \A i \in 1..Len(s) : IsDigit(s[i])

\* An optional lower-case 0x prefix, removed.
HasPrefix0x(s) == Len(s) >= 2 /\ s[1] = "0" /\ s[2] = "x"
stripHexPrefix(s) == IF HasPrefix0x(s) THEN SubSeq(s, 3, Len(s)) ELSE s

\* MATCH.ADDRESS: ^(0x)?[0-9a-fA-F]{40}$
MatchADDRESS(s) ==
    \E body \in {s, stripHexPrefix(s)} :
        Len(body) = 40 /\ \A i \in 1..40 : IsHexChar(body[i])

\* MATCH.HEX_STRING: an optional 0x, then hex digits in pairs.
MatchHEX_STRING(s) ==
    \E body \in {s, stripHexPrefix(s)} :
        Len(body) % 2 = 0 /\ \A i \in 1..Len(body) : IsHexChar(body[i])

-----------------------------------------------------------------------------
\* The message catalog.

messages ==
    [derivationPath |->
        [notString |-> "Derivation path is not the correct type (expected a String)",
         notValidParts |-> "Derivation path does not contain the required parts (Purpouse, Coin Id, Account, Change + Index)",
         notValidHeaderKey |-> "Derivation path does not start with the correct header key",
         notValidPurpouse |-> "Derivation path does have the Ethereum reserved Purpouse",
         notValidCoin |-> "Derivation path does have the correct Coin type Id (Main or Test net)",
         notValidAccount |-> "Derivation path does have the correct account value/type",
         notValidChangeIndex |-> "Derivation path does have the correct Change value or Account Index",
         notValidAccountIndex |-> "Derivation path should have only one value for the Account Index",
         genericError |-> "Something is wrong with the supplied derivation path:"],
     safeInteger |->
        [notNumber |-> "The value passed in as an argument is not a number",
         notPositive |-> "The integer value passed in as an argument is not positive",
         notSafe |-> "The integer value passed in as an argument outside the safe range",
         genericError |-> "Something is wrong with the supplied integer"],
     bigNumber |->
        [notBigNumber |-> "The value passed in is not a Big Number",
         genericError |-> "Something is wrong with the supplied Big Number value"],
     address |->
        [notStringSequence |-> "The address passed in is not a valid String",
         notLength |-> "The address passed in does not have the correct length",
         notFormat |-> "The address passed in is not in the correct format",
         notChecksum |-> "The address passed in does not have the correct checksum",
         genericError |-> "Something is wrong with the supplied address"],
     hexSequence |->
        [notStringSequence |-> "The hex sequence passed in is not a valid String",
         notFormat |-> "The hex sequence passed in is not in a correct hex format",
         genericError |-> "Something is wrong with the supplied hex sequence"]]

-----------------------------------------------------------------------------
\* JavaScript values. A number is finite, NaN or an infinity; a finite number
\* has a sign, a magnitude hi * 2^27 + lo (two limbs, so that 2^53 fits) and a
\* flag telling whether it has a fractional part.

Limb == 2^27

FiniteNumber(neg, hi, lo, frac) ==
    [kind |-> "finite", neg |-> neg, hi |-> hi, lo |-> lo, frac |-> frac]
NaNNumber == [kind |-> "NaN", neg |-> FALSE, hi |-> 0, lo |-> 0, frac |-> FALSE]
InfinityNumber(neg) == [kind |-> "Infinity", neg |-> neg, hi |-> 0, lo |-> 0, frac |-> FALSE]
Small(n) == FiniteNumber(n < 0, 0, IF n < 0 THEN 0 - n ELSE n, FALSE)

StringValue(s) == [type |-> "string", str |-> s, num |-> NaNNumber]
NumberValue(n) == [type |-> "number", str |-> <<>>, num |-> n]
BooleanValue(b) == [type |-> "boolean", str |-> <<>>, num |-> Small(IF b THEN 1 ELSE 0)]
BigNumberValue(n) == [type |-> "bignumber", str |-> <<>>, num |-> n]
NullValue == [type |-> "null", str |-> <<>>, num |-> Small(0)]
UndefinedValue == [type |-> "undefined", str |-> <<>>, num |-> NaNNumber]
ObjectValue == [type |-> "object", str |-> <<>>, num |-> NaNNumber]

\* ToNumber, as the relational operators apply it: a string is read as a
\* decimal numeral (the empty string is 0, anything else NaN), null is 0,
\* undefined and a plain object are NaN, a boolean is 0 or 1, and a big number
\* is the number its decimal rendering reads as.
ToNumber(v) ==
    IF v.type = "string"
    THEN IF Len(v.str) = 0 THEN Small(0)
         ELSE IF MatchDIGITS(v.str) THEN Small(DecimalValue(v.str))
         ELSE IF v.str[1] = "-" /\ MatchDIGITS(Tail(v.str))
              THEN FiniteNumber(TRUE, 0, DecimalValue(Tail(v.str)), FALSE)
         ELSE NaNNumber
    ELSE v.num

\* n >= 0 on numbers: false for NaN, and -0 >= 0 holds.
GreaterOrEqualZero(n) ==
    CASE n.kind = "NaN" -> FALSE
      [] n.kind = "Infinity" -> ~n.neg
      [] OTHER -> ~n.neg \/ (n.hi = 0 /\ n.lo = 0 /\ ~n.frac)

\* Number.isSafeInteger: a number (no conversion), finite, without fractional
\* part, of magnitude at most 2^53 - 1.
isSafeInteger(v) ==
    /\ v.type = "number"
    /\ v.num.kind = "finite"
    /\ ~v.num.frac
    /\ v.num.hi <= 2^26 - 1

\* BN.isBN
isBN(v) == v.type = "bignumber"

-----------------------------------------------------------------------------
\* isValidChecksumAddress: the digest of the lower-cased hex digits gives one
\* nibble per digit, and a digit must be upper case exactly when its nibble is
\* 8 or more. The digest is an arbitrary fixed function of all the digits.

RECURSIVE HexSum(_)
HexSum(s) == IF Len(s) = 0 THEN 0 ELSE (HexVal(s[1]) + HexSum(Tail(s))) % 16

digestNibble(lower, i) == (7 * HexVal(lower[i]) + 3 * i + HexSum(lower)) % 16

toChecksumAddress(s) ==
    LET lower == toLowerCase(stripHexPrefix(s))
    IN  [i \in 1..Len(lower) |->
            IF digestNibble(lower, i) >= 8 THEN UpperChar(lower[i]) ELSE lower[i]]

isValidChecksumAddress(s) == toChecksumAddress(s) = stripHexPrefix(s)

-----------------------------------------------------------------------------
\* The assertion primitive and the evaluation protocol of a validator.

Modes == {"throws", "returnsFalse"}

Bool(b) == IF b THEN "true" ELSE "false"

\* One assertTruth call of a validator: which check it is, the catalog text
\* its message starts with, and what evaluating its expression gives
\* ("true", "false", or "TypeError" when the evaluation itself throws).
Check(name, message, value) == [name |-> name, message |-> message, value |-> value]

\* assertTruth({ expression, message }): raises the message when the expression
\* is false, returns true otherwise; the mocked primitive returns the
\* expression instead of raising.
assertTruth(expression, message, mode) ==
    IF ~expression /\ mode = "throws"
    THEN [threw |-> TRUE, returned |-> FALSE, message |-> message]
    ELSE [threw |-> FALSE, returned |-> expression, message |-> message]

Returned == [status |-> "returned", message |-> ""]
Raised(message) == [status |-> "raised", message |-> message]
Crashed == [status |-> "crashed", message |-> "TypeError"]
Idle == [status |-> "idle", message |-> ""]

\* The fail-safe after the checks: the generic error when no collected result
\* differs from false, true otherwise.
Aggregate(tests, genericError) ==
    IF ~(\E i \in 1..Len(tests) : tests[i] # FALSE)
    THEN Raised(genericError)
    ELSE Returned

\* The body of a validator: the checks in order, each result pushed onto
\* validationTests, then the fail-safe. An exception leaves at once.
RECURSIVE Evaluate(_, _, _, _, _)
Evaluate(checks, genericError, mode, tests, seen) ==
    IF Len(checks) = 0
    THEN [validationTests |-> tests, evaluated |-> seen,
          outcome |-> Aggregate(tests, genericError)]
    ELSE LET c == checks[1]
             now == Append(seen, c.name)
         IN  IF c.value = "TypeError"
             THEN [validationTests |-> tests, evaluated |-> now, outcome |-> Crashed]
             ELSE LET a == assertTruth(c.value = "true", c.message, mode)
                  IN  IF a.threw
                      THEN [validationTests |-> tests, evaluated |-> now,
                            outcome |-> Raised(a.message)]
                      ELSE Evaluate(Tail(checks), genericError, mode,
                                    Append(tests, a.returned), now)

-----------------------------------------------------------------------------
\* The validators. Each gives the collected results, the checks whose
\* expression was evaluated, and how the call ended.

\* The segments the later checks read: the split of a string, and the empty
\* default when split cannot be called (the caught exception).
deSerializedDerivationPath(derivationPath) ==
    IF derivationPath.type = "string"
    THEN split(derivationPath.str, PATH.DELIMITER)
    ELSE <<>>

\* "It should be composed of (at least) four parts": exactly four.
partsExpressionAtLeast(path) == Len(path) >= 4
partsExpression(path) == Len(path) = 4

\* "The correct amount of Account Indexed (just one)": at most two pieces.
accountIndexExpressionJustOne(path) == Len(split(path[4], SPLITTER)) <= 1
accountIndexExpression(path) == Len(split(path[4], SPLITTER)) <= 2

derivationPathChecks(derivationPath) ==
    LET m == messages.derivationPath
        path == deSerializedDerivationPath(derivationPath)
        n == Len(path)
        coinType == parseIntAt(path, 2)
    IN  (IF derivationPath.type = "string"
         THEN <<>>
         ELSE <<Check("string", m.notString, "false")>>)
        \o
        <<Check("parts", m.notValidParts, Bool(partsExpression(path))),
          Check("headerKey", m.notValidHeaderKey,
                IF n < 1 THEN "TypeError"
                ELSE Bool(toLowerCase(split(path[1], SPLITTER)[1]) = PATH.HEADER_KEY)),
          Check("purpose", m.notValidPurpouse,
                IF n < 1 THEN "TypeError"
                ELSE Bool(parseIntAt(split(path[1], SPLITTER), 2) = Finite(PATH.PURPOSE))),
          Check("coinType", m.notValidCoin,
                Bool(coinType = Finite(PATH.COIN_MAINNET) \/ coinType = Finite(PATH.COIN_TESTNET))),
          Check("account", m.notValidAccount,
                IF n < 3 THEN "TypeError" ELSE Bool(MatchDIGITS(path[3]))),
          Check("changeIndex", m.notValidChangeIndex,
                IF n < 4 THEN "TypeError"
                ELSE LET pieces == split(path[4], SPLITTER)
                     IN  Bool(\A i \in 1..Len(pieces) : MatchDIGITS(pieces[i]))),
          Check("accountIndex", m.notValidAccountIndex,
                IF n < 4 THEN "TypeError"
                ELSE Bool(accountIndexExpression(path)))>>

derivationPathValidator(derivationPath, mode) ==
    Evaluate(derivationPathChecks(derivationPath),
             messages.derivationPath.genericError, mode, <<>>, <<>>)

safeIntegerChecks(integer) ==
    LET m == messages.safeInteger
    IN  <<Check("number", m.notNumber, "true"),
          Check("positive", m.notPositive, Bool(GreaterOrEqualZero(ToNumber(integer)))),
          Check("safe", m.notSafe, Bool(isSafeInteger(integer)))>>

safeIntegerValidatorNoSign(integer, mode) ==
    LET c == safeIntegerChecks(integer)
    IN  Evaluate(<<c[1], c[3]>>, messages.safeInteger.genericError, mode, <<>>, <<>>)

safeIntegerValidator(integer, mode) ==
    Evaluate(safeIntegerChecks(integer), messages.safeInteger.genericError, mode, <<>>, <<>>)

bigNumberChecks(bigNumber) ==
    <<Check("bigNumber", messages.bigNumber.notBigNumber, Bool(isBN(bigNumber)))>>

bigNumberValidator(bigNumber, mode) ==
    Evaluate(bigNumberChecks(bigNumber), messages.bigNumber.genericError, mode, <<>>, <<>>)

\* Reading a property of null or undefined throws; on any other value that
\* is not a string, length is not 40 or 42 and match is not a function.
addressChecks(address) ==
    LET m == messages.address
        isString == address.type = "string"
        nullish == address.type \in {"null", "undefined"}
    IN  <<Check("string", m.notStringSequence, Bool(isString)),
          Check("length", m.notStringSequence,
                IF nullish THEN "TypeError"
                ELSE Bool(isString /\ (Len(address.str) = 40 \/ Len(address.str) = 42))),
          Check("format", m.notFormat,
                IF ~isString THEN "TypeError" ELSE Bool(MatchADDRESS(address.str))),
          Check("checksum", m.notChecksum,
                IF ~isString THEN "TypeError" ELSE Bool(isValidChecksumAddress(address.str)))>>

addressValidatorNoChecksum(address, mode) ==
    Evaluate(SubSeq(addressChecks(address), 1, 3), messages.address.genericError, mode, <<>>, <<>>)

addressValidator(address, mode) ==
    Evaluate(addressChecks(address), messages.address.genericError, mode, <<>>, <<>>)

hexSequenceChecks(string) ==
    LET m == messages.hexSequence
    IN  <<Check("string", m.notStringSequence, Bool(string.type = "string")),
          Check("format", m.notFormat,
                IF string.type # "string" THEN "TypeError"
                ELSE Bool(MatchHEX_STRING(string.str)))>>

hexSequenceValidatorFormatOnly(string, mode) ==
    Evaluate(Tail(hexSequenceChecks(string)), messages.hexSequence.genericError, mode, <<>>, <<>>)

hexSequenceValidator(string, mode) ==
    Evaluate(hexSequenceChecks(string), messages.hexSequence.genericError, mode, <<>>, <<>>)

-----------------------------------------------------------------------------
\* The values the validators are called with.

\* All sequences of 1..n elements of S.
SeqsUpTo(S, n) == UNION {[1..k -> S] : k \in 1..n}
SeqsFrom0(S, n) == {<<>>} \cup SeqsUpTo(S, n)

NonStrings ==
    {NumberValue(Small(42)), NumberValue(Small(0)), NullValue, UndefinedValue,
     ObjectValue, BooleanValue(TRUE), BooleanValue(FALSE), BigNumberValue(Small(5))}

\* Paths assembled from the constants: header key and purpose joined by the
\* splitter, then coin type, account and change/index.
FirstSegments ==
    {h \o SPLITTER \o p : h \in {<<"m">>, <<"M">>, <<"x">>},
                          p \in {<<"4", "4">>, <<"4", "5">>, <<"4", "4", "x">>}}
    \cup {<<"m">>, <<"m">> \o SPLITTER \o <<"4", "4">> \o SPLITTER \o <<"9">>}
CoinSegments == {<<"6", "0">>, <<"1">>, <<"9", "9">>, <<"6", "0", "x">>}
AccountSegments == {<<"0">>, <<"1", "2">>, <<"a">>}
ChangeSegments == {join(ps, SPLITTER) : ps \in SeqsUpTo({<<"0">>, <<"1">>, <<"x">>}, MaxPieces)}

GoodParts == <<<<"m">> \o SPLITTER \o <<"4", "4">>, <<"6", "0">>, <<"0">>, <<"0">>>>

AssembledPaths ==
    {join(<<f, c, a, ch>>, PATH.DELIMITER) :
        f \in FirstSegments, c \in CoinSegments, a \in AccountSegments, ch \in ChangeSegments}
    \cup {join(GoodParts \o Repeat(<<<<"7">>>>, k), PATH.DELIMITER) : k \in 1..MaxExtraSegments}
    \cup {join(SubSeq(GoodParts, 1, 4 - k), PATH.DELIMITER) : k \in 1..(IF MaxExtraSegments < 4 THEN MaxExtraSegments ELSE 4)}

\* The paths written out in the documentation's examples.
ExampleGood4 == <<"m", "/", "4", "4", "'", "/", "6", "0", "/", "0", "/", "0">>
ExampleGood5 == ExampleGood4 \o <<"/", "1">>
ExampleThreeIndexes == ExampleGood5 \o <<"/", "2">>
ExampleBadHeader == <<"x", "/", "4", "4", "'", "/", "6", "0", "/", "0", "/", "0">>
ExampleBadPurpose == <<"m", "/", "4", "5", "'", "/", "6", "0", "/", "0", "/", "0">>
ExampleBadCoin == <<"m", "/", "4", "4", "'", "/", "9", "9", "/", "0", "/", "0">>
ExamplePaths ==
    {ExampleGood4, ExampleGood5, ExampleThreeIndexes, ExampleBadHeader,
     ExampleBadPurpose, ExampleBadCoin}

\* Hex-like strings: every string of up to MaxHexLen characters over a small
\* alphabet, bare and 0x-prefixed, and the documentation's examples.
MaxHexLen == 4
ExampleHex == <<"0", "x", "d", "e", "a", "d", "b", "e", "e", "f">>
ExampleNotHex == <<"n", "o", "t", "-", "h", "e", "x">>
HexLikeStrings ==
    {pre \o body : pre \in {<<>>, <<"0", "x">>, <<"0", "X">>},
                   body \in SeqsFrom0({"a", "F", "0", "g"}, MaxHexLen)}
    \cup {ExampleHex, ExampleNotHex}

\* Address-like strings: 40 hex digits in several casings, with and without
\* prefix, shortened, lengthened, and with one character that is not hex.
ExampleDigits ==
    <<"5", "a", "a", "e", "b", "6", "0", "5", "3", "f", "3", "e", "9", "4", "c", "9", "b", "9", "a", "0",
      "9", "f", "3", "3", "6", "6", "9", "4", "3", "5", "e", "7", "e", "f", "1", "b", "e", "a", "e", "d">>
AddressDigits ==
    {ExampleDigits, Repeat(<<"a">>, 40), Repeat(<<"0", "1", "2", "3", "4", "5", "6", "7", "8", "9">>, 4),
     Repeat(<<"f", "0">>, 20)}
Casings(b) ==
    {b, toUpperCase(b), toChecksumAddress(b),
     [toChecksumAddress(b) EXCEPT ![1] = "g"],
     [i \in 1..Len(b) |-> IF toChecksumAddress(b)[i] = b[i] THEN UpperChar(b[i]) ELSE b[i]]}
Lengths(b) ==
    {SubSeq(b, 1, Len(b) - k) : k \in 0..MaxLenDelta} \cup {b \o Repeat(<<"0">>, k) : k \in 1..MaxLenDelta}
AddressLikeStrings ==
    {pre \o body : pre \in {<<>>, <<"0", "x">>, <<"0", "X">>},
                   body \in UNION {Lengths(c) : c \in UNION {Casings(b) : b \in AddressDigits}}}

Numbers ==
    {Small(n) : n \in {-2, -1, 0, 1, 2, 44}}
    \cup {FiniteNumber(neg, 0, k, TRUE) : neg \in BOOLEAN, k \in 0..MaxOffset}
    \cup {FiniteNumber(neg, 2^26 - 1, Limb - 1 - k, FALSE) : neg \in BOOLEAN, k \in 0..MaxOffset}
    \cup {FiniteNumber(neg, 2^26, 2 * k, FALSE) : neg \in BOOLEAN, k \in 0..MaxOffset}
    \cup {FiniteNumber(TRUE, 0, 0, FALSE), NaNNumber, InfinityNumber(FALSE), InfinityNumber(TRUE)}

NumericStrings == {<<>>, <<"5">>, <<"-", "1">>, <<"a">>, <<"4", "4">>}

DerivationPathInputs ==
    {StringValue(s) : s \in AssembledPaths \cup ExamplePaths \cup HexLikeStrings} \cup NonStrings
SafeIntegerInputs ==
    {NumberValue(n) : n \in Numbers} \cup {BigNumberValue(n) : n \in Numbers}
    \cup {StringValue(s) : s \in NumericStrings} \cup NonStrings
BigNumberInputs == SafeIntegerInputs
AddressInputs ==
    {StringValue(s) : s \in AddressLikeStrings \cup HexLikeStrings} \cup NonStrings
HexSequenceInputs ==
    {StringValue(s) : s \in HexLikeStrings \cup AddressLikeStrings} \cup NonStrings

-----------------------------------------------------------------------------
\* The state machine: a caller invokes one validator on one value and takes
\* its outcome; nothing is kept from one call to the next.

TypeOK ==
    /\ assertMode \in Modes
    /\ validator \in {"none", "derivationPath", "safeInteger", "bigNumber", "address", "hexSequence"}
    /\ outcome.status \in {"idle", "returned", "raised", "crashed"}

Init ==
    /\ assertMode \in Modes
    /\ validator = "none"
    /\ input = UndefinedValue
    /\ validationTests = <<>>
    /\ evaluated = <<>>
    /\ outcome = Idle

Call(name, value, run) ==
    /\ validator' = name
    /\ input' = value
    /\ validationTests' = run.validationTests
    /\ evaluated' = run.evaluated
    /\ outcome' = run.outcome
    /\ UNCHANGED assertMode

CallDerivationPath ==
    /\ outcome = Idle
    /\ \E v \in DerivationPathInputs :
          Call("derivationPath", v, derivationPathValidator(v, assertMode))

CallSafeInteger ==
    /\ outcome = Idle
    /\ \E v \in SafeIntegerInputs :
          Call("safeInteger", v, safeIntegerValidator(v, assertMode))

CallBigNumber ==
    /\ outcome = Idle
    /\ \E v \in BigNumberInputs :
          Call("bigNumber", v, bigNumberValidator(v, assertMode))

CallAddress ==
    /\ outcome = Idle
    /\ \E v \in AddressInputs :
          Call("address", v, addressValidator(v, assertMode))

CallHexSequence ==
    /\ outcome = Idle
    /\ \E v \in HexSequenceInputs :
          Call("hexSequence", v, hexSequenceValidator(v, assertMode))

\* The caller takes the outcome (the returned true or the raised failure).
TakeOutcome ==
    /\ outcome # Idle
    /\ validator' = "none"
    /\ input' = UndefinedValue
    /\ validationTests' = <<>>
    /\ evaluated' = <<>>
    /\ outcome' = Idle
    /\ UNCHANGED assertMode

Next ==
    \/ CallDerivationPath
    \/ CallSafeInteger
    \/ CallBigNumber
    \/ CallAddress
    \/ CallHexSequence
    \/ TakeOutcome

Spec == Init /\ [][Next]_vars

-----------------------------------------------------------------------------
\* What the claims are stated with.

Throwing == assertMode = "throws"
Called(name) == validator = name
IsString == input.type = "string"

\* The path grammar: four segments; header key m (any case) and purpose 44
\* as the two pieces of the first; coin type 60 or 1; a digits-only account;
\* one or two digits-only change/index pieces.
IsNumeral(s, n) == MatchDIGITS(s) /\ Len(s) <= 3 /\ DecimalValue(s) = n
MatchesPathGrammar(s) ==
    LET segs == split(s, PATH.DELIMITER)
    IN  /\ Len(segs) = 4
        /\ LET first == split(segs[1], SPLITTER)
               last == split(segs[4], SPLITTER)
           IN  /\ Len(first) = 2
               /\ toLowerCase(first[1]) = <<"m">>
               /\ IsNumeral(first[2], 44)
               /\ IsNumeral(segs[2], 60) \/ IsNumeral(segs[2], 1)
               /\ MatchDIGITS(segs[3])
               /\ Len(last) \in {1, 2}
               /\ \A i \in 1..Len(last) : MatchDIGITS(last[i])

\* A path put together from its pieces with the two delimiters.
PathOf(header, purpose, coin, account, change) ==
    StringValue(join(<<header \o SPLITTER \o purpose, coin, account, change>>, PATH.DELIMITER))

\* C1: every string that does not match the path grammar makes
\* validateDerivationPath raise; it never returns true for one.
C1_NonGrammarRaises ==
    (Called("derivationPath") /\ Throwing /\ IsString /\ ~MatchesPathGrammar(input.str))
        => outcome.status = "raised"

C4_BadLengthKind ==
    (Called("address") /\ Throwing /\ IsString /\ Len(input.str) \notin {40, 42})
        => outcome = Raised(messages.address.notLength)

\* C5: validateAddress returns true exactly for a string of 40 hex characters,
\* with or without 0x, whose casing satisfies the checksum; a string that
\* passes the type, length and format checks with wrong casing raises the
\* checksum failure.
IsFortyHex(s) == Len(s) = 40 /\ \A i \in 1..Len(s) : IsHexChar(s[i])
HasAddressShape(s) == IsFortyHex(s) \/ (HasPrefix0x(s) /\ IsFortyHex(SubSeq(s, 3, Len(s))))
IsSafeNonNegativeNumber(v) ==
    /\ v.type = "number"
    /\ v.num.kind = "finite"
    /\ ~v.num.frac
    /\ ~v.num.neg \/ (v.num.hi = 0 /\ v.num.lo = 0)
    /\ v.num.hi < 2^26
MaxSafeInteger == NumberValue(FiniteNumber(FALSE, 2^26 - 1, Limb - 1, FALSE))
TwoToThe53 == NumberValue(FiniteNumber(FALSE, 2^26, 0, FALSE))
IsHexSequence(s) ==
    LET body == IF HasPrefix0x(s) THEN SubSeq(s, 3, Len(s)) ELSE s
    IN  Len(body) % 2 = 0 /\ \A i \in 1..Len(body) : IsHexChar(body[i])
C7_HexSequenceOutcome ==
    (Called("hexSequence") /\ Throwing)
        => outcome = (IF ~IsString THEN Raised(messages.hexSequence.notStringSequence)
                      ELSE IF IsHexSequence(input.str) THEN Returned
                      ELSE Raised(messages.hexSequence.notFormat))

C7_Witness ==
    /\ Called("hexSequence") /\ Throwing
    /\ input = NumberValue(Small(42))
    /\ outcome = Raised(messages.hexSequence.notStringSequence)

\* C8: for an input that is not a string, validateDerivationPath records the
\* not-a-string failure and ends by returning true or by raising a failure
\* of the derivation path catalog, never with another exception, whether the
\* assertion primitive raises or returns false.
DerivationPathMessages == {messages.derivationPath[k] : k \in DOMAIN messages.derivationPath}
C8_NonStringNeverCrashes ==
    (Called("derivationPath") /\ ~IsString)
        => /\ evaluated # <<>> /\ evaluated[1] = "string"
           /\ \/ outcome = Returned
              \/ outcome.status = "raised" /\ outcome.message \in DerivationPathMessages

\* C9: with an assertion primitive that returns false, every validator
\* evaluates all of its checks and collects their results, raises its generic
\* failure exactly when every collected result is false and returns true
\* otherwise; validateSafeInteger returns true for every input.
ChecksOf(name, value) ==
    CASE name = "derivationPath" -> derivationPathChecks(value)
      [] name = "safeInteger" -> safeIntegerChecks(value)
      [] name = "bigNumber" -> bigNumberChecks(value)
      [] name = "address" -> addressChecks(value)
      [] name = "hexSequence" -> hexSequenceChecks(value)
GenericOf(name) == messages[name].genericError
AllFalse(tests) == \A i \in 1..Len(tests) : tests[i] = FALSE
C9_CollectsEveryCheck ==
    (~Called("none") /\ assertMode = "returnsFalse")
        => /\ Len(evaluated) = Len(ChecksOf(validator, input))
           /\ Len(validationTests) = Len(evaluated)
           /\ outcome = (IF AllFalse(validationTests) THEN Raised(GenericOf(validator)) ELSE Returned)
           /\ Called("safeInteger") => outcome = Returned

\* C10: with the assertion primitive that raises, the first failing check in
\* the listed order raises its own failure kind and no later check is
\* evaluated; the generic failure is never raised, and true is returned only
\* when every check passed.
OwnKind(name, check) ==
    CASE name = "derivationPath" ->
            (CASE check = "string" -> messages.derivationPath.notString
               [] check = "parts" -> messages.derivationPath.notValidParts
               [] check = "headerKey" -> messages.derivationPath.notValidHeaderKey
               [] check = "purpose" -> messages.derivationPath.notValidPurpouse
               [] check = "coinType" -> messages.derivationPath.notValidCoin
               [] check = "account" -> messages.derivationPath.notValidAccount
               [] check = "changeIndex" -> messages.derivationPath.notValidChangeIndex
               [] check = "accountIndex" -> messages.derivationPath.notValidAccountIndex)
      [] name = "safeInteger" ->
            (CASE check = "number" -> messages.safeInteger.notNumber
               [] check = "positive" -> messages.safeInteger.notPositive
               [] check = "safe" -> messages.safeInteger.notSafe)
      [] name = "bigNumber" -> messages.bigNumber.notBigNumber
      [] name = "address" ->
            (CASE check = "string" -> messages.address.notStringSequence
               [] check = "length" -> messages.address.notLength
               [] check = "format" -> messages.address.notFormat
               [] check = "checksum" -> messages.address.notChecksum)
      [] name = "hexSequence" ->
            (CASE check = "string" -> messages.hexSequence.notStringSequence
               [] check = "format" -> messages.hexSequence.notFormat)
C10_FirstFailureWins ==
    (~Called("none") /\ Throwing)
        => LET checks == ChecksOf(validator, input)
               last == evaluated[Len(evaluated)]
           IN  /\ evaluated = [i \in 1..Len(evaluated) |-> checks[i].name]
               /\ \A i \in 1..Len(validationTests) : validationTests[i] = TRUE
               /\ outcome # Raised(GenericOf(validator))
               /\ \/ /\ outcome = Returned
                     /\ Len(validationTests) = Len(checks)
                  \/ /\ outcome = Raised(OwnKind(validator, last))
                     /\ Len(validationTests) = Len(evaluated) - 1
                     /\ checks[Len(evaluated)].value = "false"

====
